---- MODULE Spec2Model ----
(***************************************************************************)
(* Activity tracker: the JSON-file-backed store (database/db_manager.py).  *)
(*                                                                         *)
(* The persisted state is the backing file.  Every store method re-reads   *)
(* the file, works on the decoded object and (mutators) rewrites the whole *)
(* file.  One action models one whole method call.                         *)
(*                                                                         *)
(* Strings that the code only stores and compares for equality are TLA+    *)
(* strings.  Date strings are compared with <= and >= by the code, so they *)
(* are sequences of character codes and the comparison is Python's         *)
(* lexicographic one.  An optional argument is a set: {} is None and {v}   *)
(* is the value v.                                                         *)
(***************************************************************************)
EXTENDS Integers, Sequences, FiniteSets, TLC

VARIABLES
    file,          \* the backing document activities_file: [exists, json, data]
    journal_file,  \* whether journal_data.json exists (never read afterwards)
    constructed,   \* whether a DatabaseManager instance has been constructed
    last,          \* the last call: [op, args, raised, ret]
    pre,           \* the backing document as it was before the last call
    issued,        \* the ids the latest two successful add_category calls returned, oldest first
    proc,          \* a mutator call in progress, step by step: [pc, op, args, data, killed_at]
    two,           \* two instances on the backing file, and a reference location driven
                   \* by a single instance: [file, raised, ret, by, instances, opened]
    view,          \* the CalendarView widget: [today, current_date, selected_date,
                   \* activity_callback, day_labels], and `before`, the displayed and
                   \* the selected date as they were before the last handler ran
    app            \* the MainWindow: [categories, selected_date, date_label,
                   \* activities_list], the dialog that holds the grab (`dialog`),
                   \* what its closures captured (`form`) and its category list

vars == <<file, journal_file, constructed, last, pre, issued, proc, two, view, app>>

\* What the store's own calls never touch.
others == <<proc, two, view, app>>

(***************************************************************************)
(* Bounds of the model.                                                    *)
(***************************************************************************)
\* add_category is explored while the id it assigns is at most MaxCatId.
MaxCatId == 5
\* add_activity is explored while the id it assigns is at most MaxActId.
MaxActId == 3

(***************************************************************************)
(* Strings with an order: sequences of character codes.                    *)
(***************************************************************************)
\* Python's str <= str: the first differing character decides, a proper
\* prefix is smaller.
StrLE(a, b) ==
    LET n == IF Len(a) < Len(b) THEN Len(a) ELSE Len(b)
        diff == {i \in 1..n : a[i] # b[i]}
    IN  IF diff = {}
        THEN Len(a) <= Len(b)
        ELSE LET k == CHOOSE i \in diff : \A j \in diff : i <= j
             IN  a[k] < b[k]

\* Python's str >= str.
StrGE(a, b) == StrLE(b, a)

\* strftime("%Y-%m-%d") / the "YYYY-MM-DD" text of a date: zero-padded decimal
\* digits ("0" is code 48) and "-" (code 45).
FormatDate(y, m, d) ==
    LET Digit(n, p) == 48 + ((n \div p) % 10)
    IN  << Digit(y, 1000), Digit(y, 100), Digit(y, 10), Digit(y, 1),
           45,
           Digit(m, 10), Digit(m, 1),
           45,
           Digit(d, 10), Digit(d, 1) >>

(***************************************************************************)
(* Optional arguments and Python truthiness.                               *)
(***************************************************************************)
None == {}
Some(v) == {v}
Val(o) == CHOOSE v \in o : TRUE

\* `if s:` for an optional string: None and "" are falsy.
TruthyStr(o) == o # None /\ Val(o) # << >>

(***************************************************************************)
(* The decoded document.  keys is the set of top-level keys the JSON       *)
(* object has; a key that is absent has the empty sequence in its field.   *)
(***************************************************************************)
Keys == {"categories", "activities"}

Document(keys, categories, activities) ==
    [keys |-> keys, categories |-> categories, activities |-> activities]

\* The object _initialize_db dumps when the file is absent.
\* (The third name is written without its accent; names are only stored.)
SeedCategories ==
    << [id |-> 1, name |-> "Sport",      color |-> "#FF5733"],
       [id |-> 2, name |-> "Lecture",    color |-> "#33A8FF"],
       [id |-> 3, name |-> "Meditation", color |-> "#B033FF"],
       [id |-> 4, name |-> "Travail",    color |-> "#33FF57"] >>

SeedDocument == Document(Keys, SeedCategories, << >>)

\* The backing file: absent, or present with text that json.load decodes to
\* data (json = TRUE) or rejects (json = FALSE).
AbsentFile == [exists |-> FALSE, json |-> FALSE, data |-> Document({}, << >>, << >>)]
JsonFile(d) == [exists |-> TRUE, json |-> TRUE, data |-> d]
GarbageFile == [exists |-> TRUE, json |-> FALSE, data |-> Document({}, << >>, << >>)]

\* json.load(f) succeeds.
Loads(f) == f.exists /\ f.json

\* data[key] does not raise KeyError.
Has(d, key) == key \in d.keys

\* data.get(key, []).
Get(d, key) ==
    IF Has(d, key)
    THEN (IF key = "categories" THEN d.categories ELSE d.activities)
    ELSE << >>

(***************************************************************************)
(* Outcomes of a call: the file afterwards, whether the call raised, and   *)
(* the value returned (NoValue when it raised).                            *)
(***************************************************************************)
NoValue == "no value"
Raise(f) == [file |-> f, raised |-> TRUE, ret |-> NoValue]
Return(f, v) == [file |-> f, raised |-> FALSE, ret |-> v]

\* max(x["id"] for x in seq), seq not empty.
MaxIdOf(seq) ==
    LET ids == {seq[i].id : i \in 1..Len(seq)}
    IN  CHOOSE m \in ids : \A x \in ids : x <= m

\* Faulty variant of NewId: the number of records plus 1, which repeats an id
\* once a record other than the last was deleted.
NewId_count(seq) == Len(seq) + 1

\* "Generate new ID": 1, or max + 1 when the sequence is not empty.
NewId(seq) == IF seq # << >> THEN MaxIdOf(seq) + 1 ELSE 1

\* [x for x in seq if x["id"] != id]
WithoutId(seq, id) == SelectSeq(seq, LAMBDA x : x.id # id)

(***************************************************************************)
(* The store's methods as functions of the backing file.                   *)
(***************************************************************************)
\* Faulty variant of initialize_db: the os.path.exists test is left out, so
\* every construction rewrites the seed document.
initialize_db_always(f) == JsonFile(SeedDocument)

\* _initialize_db: write the seed document only when the file is absent.
initialize_db(f) == IF ~f.exists THEN JsonFile(SeedDocument) ELSE f

\* Faulty variant of get_categories: data["categories"] instead of
\* data.get("categories", []), which raises KeyError on a missing key.
get_categories_strict(f) ==
    IF ~Loads(f) \/ ~Has(f.data, "categories") THEN Raise(f)
    ELSE Return(f, f.data.categories)

get_categories(f) ==
    IF ~Loads(f) THEN Raise(f)
    ELSE Return(f, Get(f.data, "categories"))

\* Faulty variant of add_category: an empty name is refused.
add_category_named(f, name, color) ==
    IF ~Loads(f) \/ ~Has(f.data, "categories") \/ name = "" THEN Raise(f)
    ELSE LET new_id == NewId(f.data.categories)
             cat == [id |-> new_id, name |-> name, color |-> color]
         IN  Return(JsonFile([f.data EXCEPT !.categories = Append(@, cat)]), new_id)

add_category(f, name, color) ==
    IF ~Loads(f) \/ ~Has(f.data, "categories") THEN Raise(f)
    ELSE LET new_id == NewId(f.data.categories)
             cat == [id |-> new_id, name |-> name, color |-> color]
         IN  Return(JsonFile([f.data EXCEPT !.categories = Append(@, cat)]), new_id)

\* Faulty variant of delete_category: it also removes the activities that
\* reference the category.
delete_category_cascade(f, category_id) ==
    IF ~Loads(f) \/ ~Has(f.data, "categories") THEN Raise(f)
    ELSE Return(JsonFile([f.data EXCEPT
                    !.categories = WithoutId(@, category_id),
                    !.activities = SelectSeq(@, LAMBDA a : a.category_id # category_id)]),
                TRUE)

delete_category(f, category_id) ==
    IF ~Loads(f) \/ ~Has(f.data, "categories") THEN Raise(f)
    ELSE Return(JsonFile([f.data EXCEPT !.categories = WithoutId(@, category_id)]),
                TRUE)

\* Faulty variant of get_activities: `if category_id:` instead of
\* `if category_id is not None:`, which skips the filter for the id 0.
get_activities_truthy_category(f, start_date, end_date, category_id) ==
    IF ~Loads(f) THEN Raise(f)
    ELSE LET a0 == Get(f.data, "activities")
             a1 == IF TruthyStr(start_date)
                   THEN SelectSeq(a0, LAMBDA a : StrGE(a.date, Val(start_date)))
                   ELSE a0
             a2 == IF TruthyStr(end_date)
                   THEN SelectSeq(a1, LAMBDA a : StrLE(a.date, Val(end_date)))
                   ELSE a1
             a3 == IF category_id # None /\ Val(category_id) # 0
                   THEN SelectSeq(a2, LAMBDA a : a.category_id = Val(category_id))
                   ELSE a2
         IN  Return(f, a3)

get_activities(f, start_date, end_date, category_id) ==
    IF ~Loads(f) THEN Raise(f)
    ELSE LET a0 == Get(f.data, "activities")
             a1 == IF TruthyStr(start_date)
                   THEN SelectSeq(a0, LAMBDA a : StrGE(a.date, Val(start_date)))
                   ELSE a0
             a2 == IF TruthyStr(end_date)
                   THEN SelectSeq(a1, LAMBDA a : StrLE(a.date, Val(end_date)))
                   ELSE a1
             a3 == IF category_id # None
                   THEN SelectSeq(a2, LAMBDA a : a.category_id = Val(category_id))
                   ELSE a2
         IN  Return(f, a3)

\* Faulty variant of add_activity: the new id is taken over the categories
\* and the activities together.
add_activity_shared_ids(f, title, category_id, date, duration, notes) ==
    IF ~Loads(f) \/ ~Has(f.data, "activities") THEN Raise(f)
    ELSE LET new_id == NewId(f.data.categories \o f.data.activities)
             act == [id |-> new_id, title |-> title, category_id |-> category_id,
                     date |-> date, duration |-> duration, notes |-> notes]
         IN  Return(JsonFile([f.data EXCEPT !.activities = Append(@, act)]), new_id)

add_activity(f, title, category_id, date, duration, notes) ==
    IF ~Loads(f) \/ ~Has(f.data, "activities") THEN Raise(f)
    ELSE LET new_id == NewId(f.data.activities)
             act == [id |-> new_id, title |-> title, category_id |-> category_id,
                     date |-> date, duration |-> duration, notes |-> notes]
         IN  Return(JsonFile([f.data EXCEPT !.activities = Append(@, act)]), new_id)

\* Faulty variant of UpdateFirst: the notes are not overwritten.
UpdateFirst_keeps_notes(acts, activity_id, title, category_id, duration, notes) ==
    LET hits == {i \in 1..Len(acts) : acts[i].id = activity_id}
    IN  IF hits = {} THEN acts
        ELSE LET k == CHOOSE i \in hits : \A j \in hits : i <= j
             IN  [acts EXCEPT ![k] = [@ EXCEPT !.title = title,
                                               !.category_id = category_id,
                                               !.duration = duration]]

\* The loop updates the first activity whose id matches, then breaks.
UpdateFirst(acts, activity_id, title, category_id, duration, notes) ==
    LET hits == {i \in 1..Len(acts) : acts[i].id = activity_id}
    IN  IF hits = {} THEN acts
        ELSE LET k == CHOOSE i \in hits : \A j \in hits : i <= j
             IN  [acts EXCEPT ![k] = [@ EXCEPT !.title = title,
                                               !.category_id = category_id,
                                               !.duration = duration,
                                               !.notes = notes]]

\* Faulty variant of update_activity: an id that no activity has is an error.
update_activity_strict(f, activity_id, title, category_id, duration, notes) ==
    IF ~Loads(f) \/ ~Has(f.data, "activities") THEN Raise(f)
    ELSE IF \A i \in 1..Len(f.data.activities) : f.data.activities[i].id # activity_id
    THEN Raise(f)
    ELSE Return(JsonFile([f.data EXCEPT !.activities =
                    [i \in 1..Len(@) |->
                        IF @[i].id = activity_id
                        THEN [@[i] EXCEPT !.title = title,
                                          !.category_id = category_id,
                                          !.duration = duration,
                                          !.notes = notes]
                        ELSE @[i]]]),
                TRUE)

update_activity(f, activity_id, title, category_id, duration, notes) ==
    IF ~Loads(f) \/ ~Has(f.data, "activities") THEN Raise(f)
    ELSE Return(JsonFile([f.data EXCEPT !.activities =
                    UpdateFirst(@, activity_id, title, category_id, duration, notes)]),
                TRUE)

\* Faulty variant of delete_activity: the filter keeps the activity with the
\* id (== for !=) and drops the others.
delete_activity_inverted(f, activity_id) ==
    IF ~Loads(f) \/ ~Has(f.data, "activities") THEN Raise(f)
    ELSE Return(JsonFile([f.data EXCEPT !.activities =
                    SelectSeq(@, LAMBDA a : a.id = activity_id)]),
                TRUE)

delete_activity(f, activity_id) ==
    IF ~Loads(f) \/ ~Has(f.data, "activities") THEN Raise(f)
    ELSE Return(JsonFile([f.data EXCEPT !.activities = WithoutId(@, activity_id)]),
                TRUE)

(***************************************************************************)
(* Inputs.                                                                 *)
(***************************************************************************)
D05 == FormatDate(2025, 1, 5)
D10 == FormatDate(2025, 1, 10)
D15 == FormatDate(2025, 1, 15)
D20 == FormatDate(2025, 1, 20)

\* <<name, color>> given to add_category.
CategoryInputs == { <<"Etude", "#ABC">> }

\* Category ids given to delete_category: one no category ever has, the last
\* seed category and every id add_category assigns after the seeds.
CategoryIdInputs == {0} \cup (4..MaxCatId)

\* <<title, category_id, date, duration, notes>> given to add_activity.  The
\* store validates none of them: the second has the falsy category id 0.
ActivityInputs ==
    { <<"Footing", 4, D10, 30, "">>,
      <<"Roman",   0, D20, 45, "chapitre 3">> }

\* <<title, category_id, duration, notes>> given to update_activity.
UpdateInputs == { <<"Roman", 0, 45, "chapitre 3">> }

\* Activity ids given to update_activity and delete_activity; MaxActId + 1 is
\* an id no stored activity has.
ActivityIdInputs == 1..(MaxActId + 1)

\* <<start_date, end_date, category_id>> given to get_activities.
QueryInputs ==
    { <<None, None, None>>,
      <<Some(D10), Some(D10), None>>,
      <<Some(D10), Some(D20), None>>,
      <<Some(D15), None, None>>,
      <<None, Some(D15), None>>,
      <<None, None, Some(0)>>,
      <<None, None, Some(4)>>,
      <<Some(D05), Some(D15), Some(4)>>,
      <<Some(D15), Some(D20), Some(0)>>,
      <<Some(<< >>), None, None>>,
      <<None, Some(<< >>), None>> }

(***************************************************************************)
(* Actions: one per call of a store method.                                *)
(***************************************************************************)
Call(name, args, out) ==
    /\ file' = out.file
    /\ pre' = file
    /\ last' = [op |-> name, args |-> args, raised |-> out.raised, ret |-> out.ret]
    /\ UNCHANGED others

\* DatabaseManager(db_path): __init__ runs _initialize_db on both files.
Construct ==
    /\ Call("__init__", << >>, Return(initialize_db(file), NoValue))
    /\ journal_file' = TRUE
    /\ constructed' = TRUE
    /\ UNCHANGED issued

GetCategories ==
    /\ constructed
    /\ Call("get_categories", << >>, get_categories(file))
    /\ UNCHANGED <<journal_file, constructed, issued>>

AddCategory(name, color) ==
    LET out == add_category(file, name, color)
    IN  /\ constructed
        /\ (IF out.raised THEN TRUE ELSE out.ret <= MaxCatId)
        /\ Call("add_category", <<name, color>>, out)
        /\ issued' = IF out.raised THEN issued
                     ELSE IF issued = << >> THEN <<out.ret>>
                     ELSE <<issued[Len(issued)], out.ret>>
        /\ UNCHANGED <<journal_file, constructed>>

DeleteCategory(category_id) ==
    /\ constructed
    /\ Call("delete_category", <<category_id>>, delete_category(file, category_id))
    /\ UNCHANGED <<journal_file, constructed, issued>>

GetActivities(start_date, end_date, category_id) ==
    /\ constructed
    /\ Call("get_activities", <<start_date, end_date, category_id>>,
            get_activities(file, start_date, end_date, category_id))
    /\ UNCHANGED <<journal_file, constructed, issued>>

AddActivity(title, category_id, date, duration, notes) ==
    LET out == add_activity(file, title, category_id, date, duration, notes)
    IN  /\ constructed
        /\ (IF out.raised THEN TRUE ELSE out.ret <= MaxActId)
        /\ Call("add_activity", <<title, category_id, date, duration, notes>>, out)
        /\ UNCHANGED <<journal_file, constructed, issued>>

UpdateActivity(activity_id, title, category_id, duration, notes) ==
    /\ constructed
    /\ Call("update_activity", <<activity_id, title, category_id, duration, notes>>,
            update_activity(file, activity_id, title, category_id, duration, notes))
    /\ UNCHANGED <<journal_file, constructed, issued>>

DeleteActivity(activity_id) ==
    /\ constructed
    /\ Call("delete_activity", <<activity_id>>, delete_activity(file, activity_id))
    /\ UNCHANGED <<journal_file, constructed, issued>>

Next ==
    \/ Construct
    \/ GetCategories
    \/ \E c \in CategoryInputs : AddCategory(c[1], c[2])
    \/ \E id \in CategoryIdInputs : DeleteCategory(id)
    \/ \E q \in QueryInputs : GetActivities(q[1], q[2], q[3])
    \/ \E a \in ActivityInputs : AddActivity(a[1], a[2], a[3], a[4], a[5])
    \/ \E id \in ActivityIdInputs, u \in UpdateInputs :
           UpdateActivity(id, u[1], u[2], u[3], u[4])
    \/ \E id \in ActivityIdInputs : DeleteActivity(id)

NoCall == [op |-> "none", args |-> << >>, raised |-> FALSE, ret |-> NoValue]

\* No call in progress, no second location, no window yet.
NoProc == [pc |-> "idle", op |-> "none", args |-> << >>,
           data |-> Document({}, << >>, << >>), killed_at |-> "none"]
NoTwo == [file |-> AbsentFile, raised |-> FALSE, ret |-> NoValue, by |-> 0,
          instances |-> {}, opened |-> [i \in {1, 2} |-> AbsentFile]]
NoView == [built |-> FALSE, today |-> <<1, 1, 1>>, current_date |-> <<1, 1, 1>>,
           selected_date |-> None, activity_callback |-> None, day_labels |-> << >>,
           before |-> [current_date |-> <<1, 1, 1>>, selected_date |-> None]]
NoForm == [categories |-> << >>, activity_id |-> 0]
NoApp == [built |-> FALSE, categories |-> << >>, selected_date |-> None,
          date_label |-> None, activities_list |-> << >>,
          dialog |-> "none", form |-> NoForm, cat_tree |-> << >>]

Unused ==
    /\ proc = NoProc
    /\ two = NoTwo
    /\ view = NoView
    /\ app = NoApp

\* A fresh store location: no backing file yet, no instance yet.
Init ==
    /\ file = AbsentFile
    /\ journal_file = FALSE
    /\ constructed = FALSE
    /\ last = NoCall
    /\ pre = AbsentFile
    /\ issued = << >>
    /\ Unused

Spec == Init /\ [][Next]_vars

\* Documents found at a store location that was used before:
\* well-formed ones the store itself can have written, objects that lack a
\* key, and text that is not JSON.
StoredFiles ==
    { JsonFile(SeedDocument),
      JsonFile(Document(Keys, << >>, << >>)),
      JsonFile(Document({"categories"}, SeedCategories, << >>)),
      JsonFile(Document({"activities"}, << >>, << >>)),
      JsonFile(Document({}, << >>, << >>)),
      GarbageFile }

\* A store location as the program may find it: fresh, or used before.
InitStored ==
    /\ file \in {AbsentFile} \cup StoredFiles
    /\ journal_file \in BOOLEAN
    /\ constructed = FALSE
    /\ last = NoCall
    /\ pre = file
    /\ issued = << >>
    /\ Unused

SpecStored == InitStored /\ [][Next]_vars

(***************************************************************************)
(* A mutator step by step, with the process killed at any point.           *)
(*                                                                         *)
(* Every mutator has the same shape: open the file for reading and decode  *)
(* it, change the decoded object in memory, open the file for writing      *)
(* (which truncates it), dump the object, return.  Between two steps the   *)
(* process may be killed; a new process then constructs a store again.     *)
(***************************************************************************)
\* Faulty variant of read_document: the file is opened with a mode that
\* truncates it ("w+") before it is decoded.
read_document_truncating(f) ==
    [raised |-> TRUE, data |-> Document({}, << >>, << >>),
     file |-> IF f.exists THEN GarbageFile ELSE f]

\* with open(self.activities_file, 'r') as f: data = json.load(f)
read_document(f) ==
    IF Loads(f) THEN [raised |-> FALSE, data |-> f.data, file |-> f]
    ELSE [raised |-> TRUE, data |-> Document({}, << >>, << >>), file |-> f]

\* open(self.activities_file, 'w'): the file exists and is empty, which is
\* not JSON, until the dump is complete.
open_for_write(f) == GarbageFile

\* json.dump(data, f) run to its end, and the file closed.
dump_document(data) == JsonFile(data)

\* The in-memory part of a mutator applied to the decoded object: it raises
\* (KeyError) or gives the changed object and the value to return.
Apply(op, args, data) ==
    CASE op = "add_category" -> add_category(JsonFile(data), args[1], args[2])
      [] op = "delete_category" -> delete_category(JsonFile(data), args[1])
      [] op = "add_activity" ->
            add_activity(JsonFile(data), args[1], args[2], args[3], args[4], args[5])
      [] op = "update_activity" ->
            update_activity(JsonFile(data), args[1], args[2], args[3], args[4], args[5])
      [] op = "delete_activity" -> delete_activity(JsonFile(data), args[1])

\* The mutator calls tried step by step.
MutatorCalls ==
    { <<"add_category", <<"Etude", "#ABC">> >>,
      <<"delete_category", <<4>> >>,
      <<"add_activity", <<"Footing", 4, D10, 30, "">> >>,
      <<"update_activity", <<1, "Roman", 0, 45, "chapitre 3">> >>,
      <<"delete_activity", <<1>> >> }

StepFrame == UNCHANGED <<journal_file, constructed, issued, two, view, app>>

\* Lines 53-54 (and their likes): read and decode, or fail.
StepRead(op, args) ==
    LET r == read_document(file)
    IN  /\ constructed
        /\ proc.pc = "idle"
        /\ file' = r.file
        /\ pre' = file
        /\ IF r.raised
           THEN /\ proc' = NoProc
                /\ last' = [op |-> op, args |-> args, raised |-> TRUE, ret |-> NoValue]
           ELSE /\ proc' = [pc |-> "loaded", op |-> op, args |-> args,
                            data |-> r.data, killed_at |-> "none"]
                /\ last' = [op |-> op, args |-> args, raised |-> FALSE, ret |-> NoValue]
        /\ StepFrame

\* The in-memory change, or a KeyError out of it.
StepChange ==
    LET out == Apply(proc.op, proc.args, proc.data)
    IN  /\ proc.pc = "loaded"
        /\ (IF out.raised THEN TRUE
            ELSE /\ proc.op = "add_category" => out.ret <= MaxCatId
                 /\ proc.op = "add_activity" => out.ret <= MaxActId)
        /\ IF out.raised
           THEN /\ proc' = NoProc
                /\ last' = [last EXCEPT !.raised = TRUE]
           ELSE /\ proc' = [proc EXCEPT !.pc = "changed", !.data = out.file.data]
                /\ last' = [last EXCEPT !.ret = out.ret]
        /\ UNCHANGED <<file, pre>>
        /\ StepFrame

\* open(self.activities_file, 'w').
StepOpenForWrite ==
    /\ proc.pc = "changed"
    /\ file' = open_for_write(file)
    /\ proc' = [proc EXCEPT !.pc = "writing"]
    /\ UNCHANGED <<pre, last>>
    /\ StepFrame

\* json.dump, close, return.
StepDump ==
    /\ proc.pc = "writing"
    /\ file' = dump_document(proc.data)
    /\ proc' = NoProc
    /\ UNCHANGED <<pre, last>>
    /\ StepFrame

\* The process is killed in the middle of a call.
Kill ==
    /\ proc.pc \in {"loaded", "changed", "writing"}
    /\ proc' = [proc EXCEPT !.pc = "dead", !.killed_at = proc.pc]
    /\ constructed' = FALSE
    /\ UNCHANGED <<file, pre, last, journal_file, issued, two, view, app>>

\* A process (the first, or a new one after a kill) constructs the store.
StepConstruct ==
    /\ proc.pc \in {"idle", "dead"}
    /\ file' = initialize_db(file)
    /\ pre' = file
    /\ last' = [op |-> "__init__", args |-> << >>, raised |-> FALSE, ret |-> NoValue]
    /\ proc' = NoProc
    /\ journal_file' = TRUE
    /\ constructed' = TRUE
    /\ UNCHANGED <<issued, two, view, app>>

NextSteps ==
    \/ StepConstruct
    \/ \E c \in MutatorCalls : StepRead(c[1], c[2])
    \/ StepChange
    \/ StepOpenForWrite
    \/ StepDump
    \/ Kill

SpecSteps == InitStored /\ [][NextSteps]_vars

(***************************************************************************)
(* Two DatabaseManager instances on the same backing file, side by side    *)
(* with a reference location that a single instance serves.  Both          *)
(* locations start with the same content and receive the same calls; the   *)
(* calls on the shared file are made through either instance, one after    *)
(* the other.  An instance holds the path of the file and nothing else.    *)
(***************************************************************************)
Instances == {1, 2}

\* Faulty variant of seen_by: the instance keeps the document it found when
\* it was constructed and works on that copy.
seen_by_cached(i) == two.opened[i]

\* The document a call through instance i works on: the file named by
\* self.activities_file, read again by every method.
seen_by(i) == file

\* A whole call of a store method on the file content f.
Invoke(op, args, f) ==
    CASE op = "get_categories" -> get_categories(f)
      [] op = "get_activities" -> get_activities(f, args[1], args[2], args[3])
      [] op = "add_category" -> add_category(f, args[1], args[2])
      [] op = "delete_category" -> delete_category(f, args[1])
      [] op = "add_activity" -> add_activity(f, args[1], args[2], args[3], args[4], args[5])
      [] op = "update_activity" ->
            update_activity(f, args[1], args[2], args[3], args[4], args[5])
      [] op = "delete_activity" -> delete_activity(f, args[1])

\* The calls made on both locations.
PairCalls ==
    MutatorCalls \cup
    { <<"get_categories", << >> >>,
      <<"get_activities", <<None, None, None>> >>,
      <<"get_activities", <<Some(D10), Some(D10), Some(4)>> >> }

\* DatabaseManager(db_path) for instance i of the shared file; the first
\* construction is also the construction of the reference instance.
PairConstruct(i) ==
    /\ i \notin two.instances
    /\ file' = initialize_db(file)
    /\ pre' = file
    /\ last' = [op |-> "__init__", args |-> << >>, raised |-> FALSE, ret |-> NoValue]
    /\ two' = [two EXCEPT !.instances = @ \cup {i},
                          !.opened[i] = initialize_db(file),
                          !.file = IF two.instances = {} THEN initialize_db(@) ELSE @,
                          !.raised = FALSE,
                          !.ret = NoValue,
                          !.by = i]
    /\ journal_file' = TRUE
    /\ constructed' = TRUE
    /\ UNCHANGED <<issued, proc, view, app>>

\* The same call on the shared file, through instance i, and on the
\* reference location.
PairCall(i, op, args) ==
    LET out == Invoke(op, args, seen_by(i))
        ref == Invoke(op, args, two.file)
    IN  /\ i \in two.instances
        /\ (IF ref.raised THEN TRUE
            ELSE /\ op = "add_category" => ref.ret <= MaxCatId
                 /\ op = "add_activity" => ref.ret <= MaxActId)
        /\ file' = IF op \in {"get_categories", "get_activities"} \/ out.raised
                   THEN file ELSE out.file
        /\ pre' = file
        /\ last' = [op |-> op, args |-> args, raised |-> out.raised, ret |-> out.ret]
        /\ two' = [two EXCEPT !.file = ref.file, !.raised = ref.raised,
                              !.ret = ref.ret, !.by = i]
        /\ UNCHANGED <<journal_file, constructed, issued, proc, view, app>>

NextPair ==
    \/ \E i \in Instances : PairConstruct(i)
    \/ \E i \in Instances, c \in PairCalls : PairCall(i, c[1], c[2])

InitPair ==
    /\ file \in {AbsentFile, JsonFile(Document(Keys, << >>, << >>))}
    /\ journal_file = FALSE
    /\ constructed = FALSE
    /\ last = NoCall
    /\ pre = file
    /\ issued = << >>
    /\ proc = NoProc
    /\ two = [NoTwo EXCEPT !.file = file]
    /\ view = NoView
    /\ app = NoApp

SpecPair == InitPair /\ [][NextPair]_vars

(***************************************************************************)
(* The calendar widget (gui/calendar_view.py).  A datetime is <<year,       *)
(* month, day>>; the time of day is never read.  The grid is the list of   *)
(* the 42 day cells, row by row; a cell is [date, text, style, bound,      *)
(* indicator]: `bound` is the date its <Button-1> binding passes to        *)
(* _on_date_click, `indicator` the colours of the frames packed into the   *)
(* cell, left to right.                                                    *)
(***************************************************************************)
\* Navigation is explored while the displayed month is at most NavSpan months
\* away from the month of `today`.
NavSpan == 3

\* Faulty variant of isleap: every fourth year is a leap year.
isleap_every_fourth(year) == year % 4 = 0

\* calendar.isleap
isleap(year) == year % 4 = 0 /\ (year % 100 # 0 \/ year % 400 = 0)

\* calendar.mdays, and calendar.monthrange(year, month)[1]
mdays == <<31, 28, 31, 30, 31, 30, 31, 31, 30, 31, 30, 31>>
MonthDays(year, month) == mdays[month] + (IF month = 2 /\ isleap(year) THEN 1 ELSE 0)

\* datetime.date(year, month, day).toordinal(): day 1 is 0001-01-01.
RECURSIVE DaysBeforeMonth(_, _)
DaysBeforeMonth(year, month) ==
    IF month = 1 THEN 0
    ELSE DaysBeforeMonth(year, month - 1) + MonthDays(year, month - 1)

toordinal(year, month, day) ==
    LET y == year - 1
    IN  y * 365 + (y \div 4) - (y \div 100) + (y \div 400)
        + DaysBeforeMonth(year, month) + day

\* Faulty variant of weekday: Sunday is 0.
weekday_from_sunday(year, month, day) == toordinal(year, month, day) % 7

\* calendar.weekday: Monday is 0.
weekday(year, month, day) == (toordinal(year, month, day) + 6) % 7

\* calendar.monthcalendar(year, month) with the default first weekday: the
\* weeks of the month, Monday first, 0 for the days outside the month.
monthcalendar(year, month) ==
    LET first == weekday(year, month, 1)
        ndays == MonthDays(year, month)
        weeks == (first + ndays + 6) \div 7
    IN  [w \in 1..weeks |->
            [c \in 1..7 |->
                LET day == (w - 1) * 7 + c - first
                IN  IF day >= 1 /\ day <= ndays THEN day ELSE 0]]

\* str(n) of a natural number: decimal digits, no padding.
RECURSIVE Str(_)
Str(n) == IF n < 10 THEN <<48 + n>> ELSE Append(Str(n \div 10), 48 + (n % 10))

\* date.strftime("%Y-%m-%d")
strftime(date) == FormatDate(date[1], date[2], date[3])

IdsIn(seq) == {seq[i].id : i \in 1..Len(seq)}

\* The keys of a dict built by inserting the members of seq in order: each
\* value once, at the place of its first occurrence.
RECURSIVE DictKeys(_)
DictKeys(seq) ==
    IF seq = << >> THEN << >>
    ELSE LET rest == DictKeys(SubSeq(seq, 1, Len(seq) - 1))
             x == seq[Len(seq)]
         IN  IF \E i \in 1..Len(rest) : rest[i] = x THEN rest ELSE Append(rest, x)

\* {cat["id"]: cat for cat in categories}[id]: the last category with the id.
DictItem(categories, id) ==
    LET hits == {i \in 1..Len(categories) : categories[i].id = id}
    IN  categories[CHOOSE i \in hits : \A j \in hits : j <= i]

\* Faulty variant of add_activity_indicators: one frame per activity.
add_activity_indicators_each(f, date) ==
    LET date_str == strftime(date)
        activities == get_activities(f, Some(date_str), Some(date_str), None).ret
        categories == get_categories(f).ret
        cat_ids == [i \in 1..Len(activities) |-> activities[i].category_id]
        drawn == SelectSeq(cat_ids, LAMBDA c : c \in IdsIn(categories))
    IN  [i \in 1..Len(drawn) |-> DictItem(categories, drawn[i]).color]

\* _add_activity_indicators for a cell that has a date: the colours of the
\* frames it packs.
add_activity_indicators(f, date) ==
    LET date_str == strftime(date)
        activities == get_activities(f, Some(date_str), Some(date_str), None).ret
        categories == get_categories(f).ret
        by_category == DictKeys([i \in 1..Len(activities) |-> activities[i].category_id])
        drawn == SelectSeq(by_category, LAMBDA c : c \in IdsIn(categories))
    IN  [i \in 1..Len(drawn) |-> DictItem(categories, drawn[i]).color]

SameDay(a, b) == a[1] = b[1] /\ a[2] = b[2] /\ a[3] = b[3]

EmptyCell == [date |-> None, text |-> << >>, style |-> "CalendarDay.TLabel",
              bound |-> None, indicator |-> << >>]

\* _create_widgets: six rows of seven cells.
create_widgets == [k \in 1..42 |-> EmptyCell]

\* _update_calendar: every cell is cleared (its binding is left alone), then
\* the cells of the month's weeks are filled in order.
update_calendar(v, f) ==
    LET year == v.current_date[1]
        month == v.current_date[2]
        cal == monthcalendar(year, month)
        Cleared(k) == [v.day_labels[k] EXCEPT !.indicator = << >>, !.text = << >>,
                                              !.style = "CalendarDay.TLabel",
                                              !.date = None]
        Filled(k, day) ==
            LET cell_date == <<year, month, day>>
            IN  [date |-> Some(cell_date),
                 text |-> Str(day),
                 style |-> IF v.selected_date # None /\ SameDay(cell_date, Val(v.selected_date))
                           THEN "CalendarSelected.TLabel"
                           ELSE IF SameDay(cell_date, v.today)
                           THEN "CalendarToday.TLabel"
                           ELSE "CalendarDay.TLabel",
                 bound |-> Some(cell_date),
                 indicator |-> add_activity_indicators(f, cell_date)]
    IN  [v EXCEPT !.day_labels =
            [k \in 1..42 |->
                IF k <= 7 * Len(cal) /\ cal[((k - 1) \div 7) + 1][((k - 1) % 7) + 1] # 0
                THEN Filled(k, cal[((k - 1) \div 7) + 1][((k - 1) % 7) + 1])
                ELSE Cleared(k)]]

\* CalendarView(parent, db_manager) at the time `now`.
CalendarView(f, now) ==
    update_calendar([built |-> TRUE, today |-> now, current_date |-> now,
                     selected_date |-> None, activity_callback |-> None,
                     day_labels |-> create_widgets,
                     before |-> [current_date |-> now, selected_date |-> None]], f)

set_activity_callback(v, callback) == [v EXCEPT !.activity_callback = Some(callback)]

prev_month(v, f) ==
    LET year == v.current_date[1]
        month == v.current_date[2] - 1
    IN  update_calendar([v EXCEPT !.current_date =
                            IF month < 1 THEN <<year - 1, 12, 1>> ELSE <<year, month, 1>>], f)

\* Faulty variant of next_month: the year is not carried.
next_month_same_year(v, f) ==
    LET year == v.current_date[1]
        month == v.current_date[2] + 1
    IN  update_calendar([v EXCEPT !.current_date =
                            IF month > 12 THEN <<year, 1, 1>> ELSE <<year, month, 1>>], f)

next_month(v, f) ==
    LET year == v.current_date[1]
        month == v.current_date[2] + 1
    IN  update_calendar([v EXCEPT !.current_date =
                            IF month > 12 THEN <<year + 1, 1, 1>> ELSE <<year, month, 1>>], f)

(***************************************************************************)
(* The main window (main.py): the calendar, the label and the list of the  *)
(* selected date.                                                          *)
(***************************************************************************)
\* _load_categories: self.categories (self.category_map is built from it).
load_categories(a, f) == [a EXCEPT !.categories = get_categories(f).ret]

\* _load_activities(date): the rows of self.activities_list.
load_activities(a, f, date) ==
    LET date_str == strftime(date)
        activities == get_activities(f, Some(date_str), Some(date_str), None).ret
        Row(activity) ==
            [values |-> << activity.title,
                           IF activity.category_id \in IdsIn(a.categories)
                           THEN DictItem(a.categories, activity.category_id).name
                           ELSE "Inconnu",
                           activity.duration >>,
             tags |-> << Str(activity.id) >>]
    IN  [a EXCEPT !.activities_list = [i \in 1..Len(activities) |-> Row(activities[i])]]

\* _on_date_selected(date); the label shows the weekday, day, month and year.
on_date_selected(a, f, date) ==
    load_activities([a EXCEPT !.date_label = Some(<<weekday(date[1], date[2], date[3]),
                                                     date[3], date[2], date[1]>>),
                              !.selected_date = Some(date)], f, date)

\* Faulty variant of on_date_click: a click on the selected date clears the
\* selection.
on_date_click_toggle(v, a, f, date) ==
    LET sel == IF v.selected_date = Some(date) THEN None ELSE Some(date)
    IN  [view |-> update_calendar([v EXCEPT !.selected_date = sel], f),
         app |-> IF v.activity_callback # None THEN on_date_selected(a, f, date) ELSE a]

\* _on_date_click(date); the callback that is registered is the window's
\* _on_date_selected.
on_date_click(v, a, f, date) ==
    [view |-> update_calendar([v EXCEPT !.selected_date = Some(date)], f),
     app |-> IF v.activity_callback # None THEN on_date_selected(a, f, date) ELSE a]

\* MainWindow(root) at the time `now`: the store, the calendar with its
\* callback, the categories, and a refresh of the calendar.
MainWindow(f0, now) ==
    LET f == initialize_db(f0)
        calendar == set_activity_callback(CalendarView(f, now), "_on_date_selected")
    IN  [file |-> f,
         view |-> update_calendar(calendar, f),
         app |-> load_categories([NoApp EXCEPT !.built = TRUE], f)]

(***************************************************************************)
(* The calendar in use: the window is built over a store that holds        *)
(* activities, then the month buttons and the day cells are clicked.       *)
(***************************************************************************)
\* datetime.now() when the window is built.
TodayInputs == { <<2024, 2, 29>>, <<2025, 1, 10>>, <<2100, 2, 28>>, <<2000, 1, 1>> }

\* The cells that are clicked.
ClickCells == {1, 12, 32, 36}

RECURSIVE AddAll(_, _)
AddAll(f, acts) ==
    IF acts = << >> THEN f
    ELSE AddAll(add_activity(f, acts[1][1], acts[1][2], acts[1][3], acts[1][4],
                             acts[1][5]).file,
                Tail(acts))

\* What the store holds: two activities of one category on a day, two
\* categories on a day, a category that does not exist, and a leap day.
ViewActivities ==
    << <<"Footing", 1, D10, 30, "">>,
       <<"Natation", 1, D10, 45, "">>,
       <<"Roman", 2, D15, 20, "chapitre 3">>,
       <<"Yoga", 3, D15, 15, "">>,
       <<"Roman", 2, D15, 25, "">>,
       <<"Echecs", 9, D20, 60, "">>,
       <<"Sieste", 4, FormatDate(2024, 2, 29), 20, "">> >>

ViewFiles == { JsonFile(SeedDocument), AddAll(JsonFile(SeedDocument), ViewActivities) }

MonthsFromToday(date, today) == (date[1] * 12 + date[2]) - (today[1] * 12 + today[2])

\* A handler of the calendar ran: r is the calendar and the window after it.
ViewStep(op, args, r) ==
    /\ view' = [r.view EXCEPT !.before = [current_date |-> view.current_date,
                                          selected_date |-> view.selected_date]]
    /\ app' = r.app
    /\ last' = [op |-> op, args |-> args, raised |-> FALSE, ret |-> NoValue]
    /\ pre' = file
    /\ UNCHANGED <<file, journal_file, constructed, issued, proc, two>>

\* The "<" button.
PrevMonth ==
    LET after == prev_month(view, file)
    IN  /\ view.built
        /\ app.dialog = "none"
        /\ MonthsFromToday(after.current_date, view.today) >= 0 - NavSpan
        /\ ViewStep("_prev_month", << >>, [view |-> after, app |-> app])

\* The ">" button.
NextMonth ==
    LET after == next_month(view, file)
    IN  /\ view.built
        /\ app.dialog = "none"
        /\ MonthsFromToday(after.current_date, view.today) <= NavSpan
        /\ ViewStep("_next_month", << >>, [view |-> after, app |-> app])

\* A click on the k-th day cell: its binding, if it has one, calls
\* _on_date_click with the date it was made for.  A dialog that holds the
\* grab keeps the clicks from the main window.  The call is recorded with
\* the date passed, the cell and the date the cell showed when clicked.
DateClick(k) ==
    /\ view.built
    /\ app.dialog = "none"
    /\ view.day_labels[k].bound # None
    /\ ViewStep("_on_date_click",
                << Val(view.day_labels[k].bound), k, view.day_labels[k].date >>,
                on_date_click(view, app, file, Val(view.day_labels[k].bound)))

NextView ==
    \/ PrevMonth
    \/ NextMonth
    \/ \E k \in ClickCells : DateClick(k)

InitView ==
    /\ file \in ViewFiles
    /\ journal_file = TRUE
    /\ constructed = TRUE
    /\ last = NoCall
    /\ pre = file
    /\ issued = << >>
    /\ proc = NoProc
    /\ two = NoTwo
    /\ \E now \in TodayInputs :
           /\ view = MainWindow(file, now).view
           /\ app = MainWindow(file, now).app

SpecView == InitView /\ [][NextView]_vars

(***************************************************************************)
(* The forms of the main window (main.py) and the validators they call     *)
(* (utils/validators.py).  What the user types is a sequence of character  *)
(* codes.  A dialog takes the grab when it opens, so one dialog is open at *)
(* a time and the main window is not reachable meanwhile.  A handler gives *)
(* [file, view, app, call, message, raised]: `call` is the store mutator   *)
(* it called, `message` the message box it showed.                         *)
(***************************************************************************)
Whitespace == {9, 10, 11, 12, 13, 32}

RECURSIVE lstrip(_)
lstrip(text) == IF text # << >> /\ text[1] \in Whitespace THEN lstrip(Tail(text)) ELSE text

RECURSIVE rstrip(_)
rstrip(text) ==
    IF text # << >> /\ text[Len(text)] \in Whitespace
    THEN rstrip(SubSeq(text, 1, Len(text) - 1))
    ELSE text

\* str.strip()
strip(text) == rstrip(lstrip(text))

\* sanitize_input: "<" (60) and ">" (62) are removed, then the text is
\* stripped.
sanitize_input(text) ==
    IF text = << >> THEN << >>
    ELSE strip(SelectSeq(text, LAMBDA c : c \notin {60, 62}))

IsHexDigit(c) == c \in (48..57) \cup (65..70) \cup (97..102)

\* validate_color_hex: re.match of ^#(?:[0-9a-fA-F]{3}){1,2}$ ; the $ also
\* matches before a final newline.
validate_color_hex(color) ==
    LET body == IF color # << >> /\ color[Len(color)] = 10
                THEN SubSeq(color, 1, Len(color) - 1) ELSE color
    IN  /\ Len(body) \in {4, 7}
        /\ body[1] = 35
        /\ \A i \in 2..Len(body) : IsHexDigit(body[i])

RECURSIVE DecimalValue(_)
DecimalValue(digits) ==
    IF digits = << >> THEN 0
    ELSE 10 * DecimalValue(SubSeq(digits, 1, Len(digits) - 1)) + (digits[Len(digits)] - 48)

\* int(text): surrounding whitespace, an optional sign, decimal digits;
\* anything else is a ValueError (ok is FALSE).
int(text) ==
    LET s == strip(text)
        signed == s # << >> /\ s[1] \in {43, 45}
        digits == IF signed THEN Tail(s) ELSE s
        ok == digits # << >> /\ \A i \in 1..Len(digits) : digits[i] \in 48..57
    IN  [ok |-> ok,
         value |-> IF ~ok THEN 0
                   ELSE IF signed /\ s[1] = 45 THEN 0 - DecimalValue(digits)
                   ELSE DecimalValue(digits)]

\* The names bound in main.py: its imports (lines 6-15; the star import
\* brings every public name of utils/validators.py) and its definitions.
ModuleNames ==
    { "tk", "ttk", "messagebox", "scrolledtext", "datetime", "timedelta", "sys", "os",
      "DatabaseManager", "CalendarView", "re",
      "validate_date_format", "validate_duration", "validate_color_hex", "sanitize_input",
      "MainWindow", "main" }

Done(f, v, a, call, message) ==
    [file |-> f, view |-> v, app |-> a, call |-> call, message |-> message,
     raised |-> FALSE]

\* An exception leaves the handler; Tk reports it and goes on.
Failed(f, v, a, exception) ==
    [file |-> f, view |-> v, app |-> a, call |-> None, message |-> exception,
     raised |-> TRUE]

\* The first category with the name, as the loop over the captured list
\* finds it.
CategoryByName(categories, name) ==
    LET hits == {i \in 1..Len(categories) : categories[i].name = name}
    IN  IF hits = {} THEN None
        ELSE Some(categories[CHOOSE i \in hits : \A j \in hits : i <= j].id)

\* _add_activity: the dialog opens only when a date is selected.
add_activity_dialog(v, a, f) ==
    IF a.selected_date = None
    THEN Done(f, v, a, None, "Please select a date first.")
    ELSE Done(f, v, [a EXCEPT !.dialog = "add_activity",
                              !.form = [categories |-> get_categories(f).ret,
                                        activity_id |-> 0]],
              None, "")

\* Faulty variant of save_added_activity: the duration is not checked to be
\* positive.
save_added_activity_any_duration(v, a, f, title_text, category_name, duration_text, notes_text) ==
    LET title == sanitize_input(title_text)
        duration == int(duration_text)
        cat_id == CategoryByName(a.form.categories, category_name)
    IN  IF title = << >> THEN Done(f, v, a, None, "Title is required.")
        ELSE IF ~duration.ok
        THEN Done(f, v, a, None, "Duration must be a positive number.")
        ELSE IF cat_id = None THEN Done(f, v, a, None, "Invalid category.")
        ELSE LET date_str == strftime(Val(a.selected_date))
                 notes == strip(Append(notes_text, 10))
                 out == add_activity(f, title, Val(cat_id), date_str, duration.value, notes)
             IN  Done(out.file,
                      update_calendar(v, out.file),
                      [load_activities(a, out.file, Val(a.selected_date))
                          EXCEPT !.dialog = "none", !.form = NoForm],
                      Some(<<"add_activity",
                             <<title, Val(cat_id), date_str, duration.value, notes>> >>),
                      "")

\* save_activity of the add dialog (lines 190-234).  The Text widget ends
\* its content with a newline.
save_added_activity(v, a, f, title_text, category_name, duration_text, notes_text) ==
    LET title == sanitize_input(title_text)
        duration == int(duration_text)
        cat_id == CategoryByName(a.form.categories, category_name)
    IN  IF title = << >> THEN Done(f, v, a, None, "Title is required.")
        ELSE IF ~duration.ok \/ duration.value <= 0
        THEN Done(f, v, a, None, "Duration must be a positive number.")
        ELSE IF cat_id = None THEN Done(f, v, a, None, "Invalid category.")
        ELSE LET date_str == strftime(Val(a.selected_date))
                 notes == strip(Append(notes_text, 10))
                 out == add_activity(f, title, Val(cat_id), date_str, duration.value, notes)
             IN  Done(out.file,
                      update_calendar(v, out.file),
                      [load_activities(a, out.file, Val(a.selected_date))
                          EXCEPT !.dialog = "none", !.form = NoForm],
                      Some(<<"add_activity",
                             <<title, Val(cat_id), date_str, duration.value, notes>> >>),
                      "")

\* _edit_activity: selection is the row selected in the list, if any.
edit_activity_dialog(v, a, f, selection) ==
    IF selection = None
    THEN Done(f, v, a, None, "Please select an activity to edit.")
    ELSE LET activity_id == int(a.activities_list[Val(selection)].tags[1]).value
             activities == get_activities(f, None, None, None).ret
         IN  IF \A i \in 1..Len(activities) : activities[i].id # activity_id
             THEN Done(f, v, a, None, "Activity not found.")
             ELSE Done(f, v, [a EXCEPT !.dialog = "edit_activity",
                                       !.form = [categories |-> get_categories(f).ret,
                                                 activity_id |-> activity_id]],
                       None, "")

\* save_activity of the edit dialog (lines 295-336).
save_edited_activity(v, a, f, title_text, category_name, duration_text, notes_text) ==
    LET title == sanitize_input(title_text)
        duration == int(duration_text)
        cat_id == CategoryByName(a.form.categories, category_name)
    IN  IF title = << >> THEN Done(f, v, a, None, "Title is required.")
        ELSE IF ~duration.ok \/ duration.value <= 0
        THEN Done(f, v, a, None, "Duration must be a positive number.")
        ELSE IF cat_id = None THEN Done(f, v, a, None, "Invalid category.")
        ELSE LET notes == strip(Append(notes_text, 10))
                 out == update_activity(f, a.form.activity_id, title, Val(cat_id),
                                        duration.value, notes)
             IN  Done(out.file,
                      update_calendar(v, out.file),
                      [load_activities(a, out.file, Val(a.selected_date))
                          EXCEPT !.dialog = "none", !.form = NoForm],
                      Some(<<"update_activity",
                             <<a.form.activity_id, title, Val(cat_id), duration.value,
                               notes>> >>),
                      "")

\* _delete_activity: `confirmed` is the answer to the askyesno box.
delete_selected_activity(v, a, f, selection, confirmed) ==
    IF selection = None
    THEN Done(f, v, a, None, "Please select an activity to delete.")
    ELSE LET activity_id == int(a.activities_list[Val(selection)].tags[1]).value
             out == delete_activity(f, activity_id)
         IN  IF ~confirmed THEN Done(f, v, a, None, "")
             ELSE Done(out.file,
                       update_calendar(v, out.file),
                       load_activities(a, out.file, Val(a.selected_date)),
                       Some(<<"delete_activity", <<activity_id>> >>),
                       "")

\* load_categories of the category dialog: the rows of cat_tree.
CategoryRows(f) ==
    LET categories == get_categories(f).ret
    IN  [i \in 1..Len(categories) |->
            [values |-> <<categories[i].name, categories[i].color>>,
             tags |-> <<Str(categories[i].id)>>]]

\* _manage_categories
manage_categories(v, a, f) ==
    Done(f, v, [a EXCEPT !.dialog = "categories", !.cat_tree = CategoryRows(f)], None, "")

\* add_category of the category dialog (lines 437-464).  It calls
\* validate_hex_color, which is looked up among the names of the module
\* when the call is reached.
add_category_form(v, a, f, name_text, color_text) ==
    LET name == sanitize_input(name_text)
    IN  IF name = << >> THEN Done(f, v, a, None, "Category name is required.")
        ELSE IF "validate_hex_color" \notin ModuleNames THEN Failed(f, v, a, "NameError")
        ELSE IF ~validate_color_hex(color_text)
        THEN Done(f, v, a, None, "Color must be in hexadecimal format (e.g., #FF5733).")
        ELSE LET out == add_category(f, name, color_text)
             IN  Done(out.file,
                      update_calendar(v, out.file),
                      load_categories([a EXCEPT !.cat_tree = CategoryRows(out.file)],
                                      out.file),
                      Some(<<"add_category", <<name, color_text>> >>),
                      "Category added successfully.")

\* Faulty variant of delete_category_form: the category is deleted without
\* a look at the activities.
delete_category_form_unchecked(v, a, f, selection, confirmed) ==
    IF selection = None
    THEN Done(f, v, a, None, "Veuillez selectionner une categorie a supprimer.")
    ELSE LET cat_id == int(a.cat_tree[Val(selection)].tags[1]).value
             out == delete_category(f, cat_id)
         IN  IF ~confirmed THEN Done(f, v, a, None, "")
             ELSE Done(out.file,
                       update_calendar(v, out.file),
                       load_categories([a EXCEPT !.cat_tree = CategoryRows(out.file)],
                                       out.file),
                       Some(<<"delete_category", <<cat_id>> >>),
                       "")

\* delete_category of the category dialog (lines 469-496): `confirmed` is
\* the answer to the askyesno box.
delete_category_form(v, a, f, selection, confirmed) ==
    IF selection = None
    THEN Done(f, v, a, None, "Veuillez selectionner une categorie a supprimer.")
    ELSE LET cat_id == int(a.cat_tree[Val(selection)].tags[1]).value
             activities == get_activities(f, None, None, Some(cat_id)).ret
             out == delete_category(f, cat_id)
         IN  IF activities # << >>
             THEN Done(f, v, a, None, "Cette categorie est utilisee.")
             ELSE IF ~confirmed THEN Done(f, v, a, None, "")
             ELSE Done(out.file,
                       update_calendar(v, out.file),
                       load_categories([a EXCEPT !.cat_tree = CategoryRows(out.file)],
                                       out.file),
                       Some(<<"delete_category", <<cat_id>> >>),
                       "")

\* dialog.destroy, by the Close button or the window manager.
destroy(v, a, f) == Done(f, v, [a EXCEPT !.dialog = "none", !.form = NoForm,
                                         !.cat_tree = << >>], None, "")

(***************************************************************************)
(* The application in use, from a fresh store: the window is built, a day  *)
(* is clicked, and the forms are opened, filled and submitted.             *)
(***************************************************************************)
\* What the activity dialogs are submitted with, <<title, category,
\* duration, notes>>: "Footing" in Sport for "30" with notes " x", " <R> " in
\* Travail for " 7 ", and entries with no title, the title "<> ", a category
\* that is not in the list, and the durations "0", "-5", "4.5" and "".
ActivityFormInputs ==
    { << <<70, 111, 111, 116, 105, 110, 103>>, "Sport", <<51, 48>>, <<32, 120>> >>,
      << <<32, 60, 82, 62, 32>>, "Travail", <<32, 55, 32>>, << >> >>,
      << << >>, "Sport", <<51, 48>>, << >> >>,
      << <<60, 62, 32>>, "Sport", <<51, 48>>, << >> >>,
      << <<82>>, "Autre", <<51, 48>>, << >> >>,
      << <<82>>, "Sport", <<48>>, << >> >>,
      << <<82>>, "Sport", <<45, 53>>, << >> >>,
      << <<82>>, "Sport", <<52, 46, 53>>, << >> >>,
      << <<82>>, "Sport", << >>, << >> >> }

\* The categories whose row is selected in the category dialog.
CategoryNameInputs == { "Sport", "Travail" }

\* The day cells that are clicked in these runs.
AppClickCells == {12, 32}

\* What is typed as a category name: nothing, ">", "Etude".
NameInputs == { << >>, <<62>>, <<69, 116, 117, 100, 101>> }

\* What is typed as a colour: "#3366FF", "#ABC", "rouge", "#12345", nothing.
ColorInputs == { <<35, 51, 51, 54, 54, 70, 70>>, <<35, 65, 66, 67>>,
                 <<114, 111, 117, 103, 101>>, <<35, 49, 50, 51, 52, 53>>, << >> }

\* The row that is selected in a list of n rows, if any.
RowInputs(n) == {None} \cup {Some(i) : i \in 1..n}

\* The row that is selected in the category list, if any.
CategoryRowInputs(rows) ==
    {None} \cup {Some(i) : i \in {j \in 1..Len(rows) : rows[j].values[1] \in CategoryNameInputs}}

\* A handler of the window ran: r is what it gives.
AppStep(op, args, r) ==
    /\ file' = r.file
    /\ view' = [r.view EXCEPT !.before = [current_date |-> view.current_date,
                                          selected_date |-> view.selected_date]]
    /\ app' = r.app
    /\ last' = [op |-> op, args |-> args, raised |-> r.raised,
                ret |-> [call |-> r.call, message |-> r.message]]
    /\ pre' = file
    /\ UNCHANGED <<journal_file, constructed, issued, proc, two>>

\* The "Add" button of the main window.
AddActivityDialog ==
    /\ app.built /\ app.dialog = "none"
    /\ AppStep("_add_activity", << >>, add_activity_dialog(view, app, file))

\* The "Save" button of the add dialog.
SaveAddedActivity(title, category, duration, notes) ==
    LET r == save_added_activity(view, app, file, title, category, duration, notes)
    IN  /\ app.dialog = "add_activity"
        /\ (IF r.call = None THEN TRUE ELSE NewId(file.data.activities) <= MaxActId)
        /\ AppStep("save_added_activity", <<title, category, duration, notes>>, r)

\* The "Edit" button of the main window.
EditActivityDialog(selection) ==
    /\ app.built /\ app.dialog = "none"
    /\ AppStep("_edit_activity", <<selection>>,
               edit_activity_dialog(view, app, file, selection))

\* The "Save" button of the edit dialog.
SaveEditedActivity(title, category, duration, notes) ==
    /\ app.dialog = "edit_activity"
    /\ AppStep("save_edited_activity", <<title, category, duration, notes>>,
               save_edited_activity(view, app, file, title, category, duration, notes))

\* The "Delete" button of the main window.
DeleteSelectedActivity(selection, confirmed) ==
    /\ app.built /\ app.dialog = "none"
    /\ AppStep("_delete_activity", <<selection, confirmed>>,
               delete_selected_activity(view, app, file, selection, confirmed))

\* The "Manage categories" menu entry.
ManageCategories ==
    /\ app.built /\ app.dialog = "none"
    /\ AppStep("_manage_categories", << >>, manage_categories(view, app, file))

\* The "Add" button of the category dialog.
AddCategoryForm(name, color) ==
    /\ app.dialog = "categories"
    /\ AppStep("add_category_form", <<name, color>>,
               add_category_form(view, app, file, name, color))

\* The "Delete" button of the category dialog.
DeleteCategoryForm(selection, confirmed) ==
    /\ app.dialog = "categories"
    /\ AppStep("delete_category_form", <<selection, confirmed>>,
               delete_category_form(view, app, file, selection, confirmed))

\* The dialog is closed.
CloseDialog ==
    /\ app.dialog # "none"
    /\ AppStep("destroy", << >>, destroy(view, app, file))

NextApp ==
    \/ \E k \in AppClickCells : DateClick(k)
    \/ AddActivityDialog
    \/ \E i \in ActivityFormInputs : SaveAddedActivity(i[1], i[2], i[3], i[4])
    \/ \E sel \in RowInputs(Len(app.activities_list)) : EditActivityDialog(sel)
    \/ \E i \in ActivityFormInputs : SaveEditedActivity(i[1], i[2], i[3], i[4])
    \/ \E sel \in RowInputs(Len(app.activities_list)), yes \in BOOLEAN :
          DeleteSelectedActivity(sel, yes)
    \/ ManageCategories
    \/ \E n \in NameInputs, c \in ColorInputs : AddCategoryForm(n, c)
    \/ \E sel \in CategoryRowInputs(app.cat_tree), yes \in BOOLEAN :
          DeleteCategoryForm(sel, yes)
    \/ CloseDialog

\* A fresh store; the window is built on 10 January 2025.
InitApp ==
    LET w == MainWindow(AbsentFile, <<2025, 1, 10>>)
    IN  /\ file = w.file
        /\ journal_file = TRUE
        /\ constructed = TRUE
        /\ last = NoCall
        /\ pre = AbsentFile
        /\ issued = << >>
        /\ proc = NoProc
        /\ two = NoTwo
        /\ view = w.view
        /\ app = w.app

SpecApp == InitApp /\ [][NextApp]_vars

(***************************************************************************)
(* What the claims speak of.                                               *)
(***************************************************************************)
Mutators == {"add_category", "delete_category",
             "add_activity", "update_activity", "delete_activity"}
Readers == {"get_categories", "get_activities"}

\* The last call was `name` and returned normally.
Returned(name) == last.op = name /\ ~last.raised

IdsOf(seq) == {seq[i].id : i \in 1..Len(seq)}
DistinctIds(seq) == \A i, j \in 1..Len(seq) : seq[i].id = seq[j].id => i = j

\* b holds the members of a that satisfy Keep, each once, in a's order.
IsFiltered(a, b, Keep(_)) ==
    \E pos \in [1..Len(b) -> 1..Len(a)] :
        /\ \A i, j \in 1..Len(b) : i < j => pos[i] < pos[j]
        /\ \A i \in 1..Len(b) : b[i] = a[pos[i]] /\ Keep(b[i])
        /\ \A k \in 1..Len(a) : Keep(a[k]) => \E i \in 1..Len(b) : pos[i] = k

(***************************************************************************)
(* C1.  The ids returned by successive add_category calls are strictly     *)
(* increasing (hence pairwise distinct), whichever categories were deleted *)
(* in between: each returned id is greater than the one returned before.   *)
(***************************************************************************)
C1_IdsStrictlyIncreasing ==
    Len(issued) = 2 => issued[1] < issued[2]

(***************************************************************************)
(* C2.  In every state reachable from a freshly seeded store the persisted *)
(* document has no two categories with the same id and no two activities   *)
(* with the same id.                                                       *)
(***************************************************************************)
C2_UniqueIds ==
    Loads(file) =>
        /\ DistinctIds(file.data.categories)
        /\ DistinctIds(file.data.activities)

\* An add after a delete: a category added later carries the id of a seed
\* category, with several records of each kind stored.
C2_Witness ==
    /\ Returned("add_category")
    /\ Len(issued) = 2
    /\ \E i \in 1..Len(file.data.categories) :
           /\ file.data.categories[i].id = 4
           /\ file.data.categories[i].name = "Etude"
    /\ Len(file.data.categories) >= 4
    /\ Len(file.data.activities) >= 2

(***************************************************************************)
(* C3.  add_category returns 1 when the categories sequence is empty and   *)
(* otherwise the largest existing category id plus 1; add_activity applies *)
(* the same rule to the activities sequence only, whatever the category    *)
(* ids are.  On a freshly seeded store the first add_category returns 5    *)
(* and the first add_activity returns 1.                                   *)
(***************************************************************************)
C3_NextIdOf(seq, id) ==
    IF Len(seq) = 0 THEN id = 1
    ELSE /\ id - 1 \in IdsOf(seq)
         /\ \A x \in IdsOf(seq) : x <= id - 1

C3_IdAssignment ==
    /\ Returned("add_category") => C3_NextIdOf(pre.data.categories, last.ret)
    /\ Returned("add_activity") => C3_NextIdOf(pre.data.activities, last.ret)
    /\ Returned("add_category") /\ pre.data = SeedDocument => last.ret = 5
    /\ Returned("add_activity") /\ pre.data.activities = << >> => last.ret = 1

\* An activity gets id 2 while the category ids go up to 5 or more.
C3_Witness ==
    /\ Returned("add_activity")
    /\ last.ret = 2
    /\ pre.data.categories # << >>
    /\ MaxIdOf(pre.data.categories) >= 5

\* add_category on an empty categories sequence.
C3_WitnessEmpty ==
    /\ Returned("add_category")
    /\ pre.data.categories = << >>
    /\ last.ret = 1

(***************************************************************************)
(* C4.  For well-formed "YYYY-MM-DD" bounds get_activities returns exactly *)
(* the stored activities, in stored order, that satisfy every supplied     *)
(* filter at once: date >= start_date, date <= end_date (both inclusive)   *)
(* and category_id equal to the given id.  A category_id of 0 is a filter  *)
(* like any other; only an absent one means no category filter.            *)
(* get_activities(d, d) returns exactly the activities dated d.            *)
(***************************************************************************)
C4_IsDigit(c) == 48 <= c /\ c <= 57

C4_WellFormed(o) ==
    o # None =>
        LET s == Val(o)
        IN  /\ Len(s) = 10
            /\ s[5] = 45 /\ s[8] = 45
            /\ \A i \in {1, 2, 3, 4, 6, 7, 9, 10} : C4_IsDigit(s[i])

C4_Matches(a, start_date, end_date, category_id) ==
    /\ start_date # None => StrGE(a.date, Val(start_date))
    /\ end_date # None => StrLE(a.date, Val(end_date))
    /\ category_id # None => a.category_id = Val(category_id)

C4_GetActivitiesFilters ==
    Returned("get_activities") =>
        LET start_date == last.args[1]
            end_date == last.args[2]
            category_id == last.args[3]
            stored == pre.data.activities
        IN  C4_WellFormed(start_date) /\ C4_WellFormed(end_date) =>
              /\ IsFiltered(stored, last.ret,
                     LAMBDA a : C4_Matches(a, start_date, end_date, category_id))
              /\ (start_date # None /\ start_date = end_date /\ category_id = None
                    => IsFiltered(stored, last.ret,
                           LAMBDA a : a.date = Val(start_date)))
              /\ file = pre

\* All three filters at once, keeping some activities and dropping others.
C4_Witness ==
    /\ Returned("get_activities")
    /\ last.args = <<Some(D05), Some(D15), Some(4)>>
    /\ Len(last.ret) >= 1
    /\ Len(last.ret) < Len(pre.data.activities)

\* The falsy id 0 used as a filter.
C4_WitnessZero ==
    /\ Returned("get_activities")
    /\ last.args = <<None, None, Some(0)>>
    /\ Len(last.ret) >= 1
    /\ Len(last.ret) < Len(pre.data.activities)

(***************************************************************************)
(* C5.  update_activity on an id that exists overwrites that activity's    *)
(* title, category_id, duration and notes with the arguments and leaves    *)
(* its id and date, its position, every other activity and the categories  *)
(* sequence unchanged.                                                     *)
(***************************************************************************)
C5_UpdateInPlace ==
    Returned("update_activity") /\ last.args[1] \in IdsOf(pre.data.activities) =>
        LET old == pre.data.activities
            new == file.data.activities
        IN  /\ Len(new) = Len(old)
            /\ \A i \in 1..Len(old) :
                 IF old[i].id = last.args[1]
                 THEN /\ new[i].id = old[i].id
                      /\ new[i].date = old[i].date
                      /\ new[i].title = last.args[2]
                      /\ new[i].category_id = last.args[3]
                      /\ new[i].duration = last.args[4]
                      /\ new[i].notes = last.args[5]
                 ELSE new[i] = old[i]
            /\ file.data.categories = pre.data.categories
            /\ file.data.keys = pre.data.keys
            /\ last.ret = TRUE

\* The middle one of three activities is updated and every field changes.
C5_Witness ==
    /\ Returned("update_activity")
    /\ last.args[1] = 2
    /\ Len(pre.data.activities) = 3
    /\ pre.data.activities[2].id = 2
    /\ pre.data.activities[2].title # last.args[2]
    /\ pre.data.activities[2].category_id # last.args[3]
    /\ pre.data.activities[2].duration # last.args[4]
    /\ pre.data.activities[2].notes # last.args[5]

(***************************************************************************)
(* C6.  update_activity on an id that no stored activity has leaves the    *)
(* persisted categories and activities sequences unchanged and returns     *)
(* success without raising.                                                *)
(***************************************************************************)
C6_UpdateAbsentIsNoOp ==
    last.op = "update_activity" /\ last.args[1] \notin IdsOf(pre.data.activities) =>
        /\ ~last.raised
        /\ last.ret = TRUE
        /\ file = pre

\* The absent id is updated while other activities are stored.
C6_Witness ==
    /\ Returned("update_activity")
    /\ last.args[1] \notin IdsOf(pre.data.activities)
    /\ Len(pre.data.activities) >= 2
    /\ \E i \in 1..Len(pre.data.activities) :
           pre.data.activities[i].title # last.args[2]

(***************************************************************************)
(* C7.  After delete_activity(id), get_activities() contains no activity   *)
(* with that id and every other activity is still present in its original  *)
(* relative order; a second delete_activity(id) leaves the document        *)
(* unchanged and returns success.                                          *)
(***************************************************************************)
C7_DeleteActivity ==
    Returned("delete_activity") =>
        LET id == last.args[1]
            got == get_activities(file, None, None, None)
            again == delete_activity(file, id)
        IN  /\ ~got.raised
            /\ id \notin IdsOf(got.ret)
            /\ IsFiltered(pre.data.activities, got.ret, LAMBDA a : a.id # id)
            /\ file.data.categories = pre.data.categories
            /\ last.ret = TRUE
            /\ ~again.raised
            /\ again.ret = TRUE
            /\ again.file = file

\* The middle one of three activities is deleted.
C7_Witness ==
    /\ Returned("delete_activity")
    /\ last.args[1] = 2
    /\ Len(pre.data.activities) = 3
    /\ Len(file.data.activities) = 2
    /\ file.data.activities[1].id = 1
    /\ file.data.activities[2].id = 3

(***************************************************************************)
(* C8.  delete_category(id) removes every category with that id, returns   *)
(* success also when no category has it, and never changes the activities  *)
(* sequence: activities that reference the deleted category stay, with a   *)
(* category_id that matches no category.                                   *)
(***************************************************************************)
C8_DeleteCategory ==
    last.op = "delete_category" =>
        LET id == last.args[1]
        IN  /\ ~last.raised
            /\ last.ret = TRUE
            /\ id \notin IdsOf(file.data.categories)
            /\ IsFiltered(pre.data.categories, file.data.categories,
                          LAMBDA c : c.id # id)
            /\ file.data.activities = pre.data.activities
            /\ file.data.keys = pre.data.keys

\* A category that an activity references is deleted: the activity is orphaned.
C8_Witness ==
    /\ Returned("delete_category")
    /\ last.args[1] \in IdsOf(pre.data.categories)
    /\ \E i \in 1..Len(file.data.activities) :
           /\ file.data.activities[i].category_id = last.args[1]
           /\ file.data.activities[i].category_id \notin IdsOf(file.data.categories)

\* delete_category of an id no category has.
C8_WitnessAbsent ==
    /\ Returned("delete_category")
    /\ last.args[1] \notin IdsOf(pre.data.categories)
    /\ pre.data.categories # << >>

(***************************************************************************)
(* C9.  Constructing a store when the backing document is absent creates   *)
(* it with exactly the four seed categories (ids 1 to 4) and an empty      *)
(* activities sequence; constructing a store when the document exists      *)
(* leaves it unchanged, so deleted seed categories are never re-created.   *)
(***************************************************************************)
C9_SeedOnlyWhenAbsent ==
    last.op = "__init__" =>
        IF ~pre.exists
        THEN /\ Loads(file)
             /\ file.data.keys = Keys
             /\ file.data.categories = SeedCategories
             /\ Len(file.data.categories) = 4
             /\ \A i \in 1..4 : file.data.categories[i].id = i
             /\ file.data.activities = << >>
        ELSE file = pre

\* A store is constructed again after the seed category 4 was deleted.
C9_Witness ==
    /\ last.op = "__init__"
    /\ pre.exists
    /\ Loads(file)
    /\ file # JsonFile(SeedDocument)
    /\ \A i \in 1..Len(file.data.categories) :
           file.data.categories[i].name # "Travail"

(***************************************************************************)
(* C10 (as claimed).  Every store operation, the read operations           *)
(* get_categories and get_activities included, fails with a propagated     *)
(* error when the backing document has malformed structure, for example    *)
(* when its "categories" or "activities" key is missing.                   *)
(***************************************************************************)
C10_Malformed(f) == f.exists /\ (~f.json \/ f.data.keys # Keys)

C10_EveryOperationFails ==
    last.op \in Mutators \cup Readers /\ C10_Malformed(pre) => last.raised

(***************************************************************************)
(* C10 (amended).  Every store operation fails when the backing document   *)
(* is not JSON.  When it is a JSON object that lacks a key, a mutator      *)
(* fails exactly when the key of the sequence it works on is missing       *)
(* ("categories" for add_category and delete_category, "activities" for    *)
(* add_activity, update_activity and delete_activity) and then leaves the  *)
(* document unchanged; get_categories and get_activities never fail on a   *)
(* missing key and return the empty sequence when their own key is         *)
(* missing.                                                                *)
(***************************************************************************)
C10_KeyOf(name) ==
    IF name \in {"get_categories", "add_category", "delete_category"}
    THEN "categories" ELSE "activities"

C10_FailsOnItsOwnKeyOnly ==
    last.op \in Mutators \cup Readers =>
        /\ last.raised <=>
             \/ ~Loads(pre)
             \/ last.op \in Mutators /\ C10_KeyOf(last.op) \notin pre.data.keys
        /\ last.raised => file = pre
        /\ /\ last.op \in Readers
           /\ Loads(pre)
           /\ C10_KeyOf(last.op) \notin pre.data.keys
           => ~last.raised /\ last.ret = << >> /\ file = pre

\* get_categories on a document without a "categories" key returns normally.
C10_Witness ==
    /\ Returned("get_categories")
    /\ Loads(pre)
    /\ "categories" \notin pre.data.keys

\* A mutator works on a document that lacks the other key.
C10_WitnessOtherKey ==
    /\ Returned("add_activity")
    /\ "categories" \notin pre.data.keys

\* A mutator fails on a document that lacks its key.
C10_WitnessRaise ==
    /\ last.op = "add_category"
    /\ last.raised
    /\ Loads(pre)

(***************************************************************************)
(* C11.  Each mutator runs as read, in-memory change, then full rewrite.   *)
(* If it fails, or the process dies, at any point before the rewrite       *)
(* starts (a failed read and a missing key included), the persisted        *)
(* document still equals its prior content; the prior content can be lost  *)
(* only when the process is killed while the rewrite is in progress.       *)
(***************************************************************************)
C11_BeforeRewrite(pc) == pc \in {"loaded", "changed"}

C11_WitnessLost ==
    /\ proc.pc = "dead"
    /\ proc.killed_at = "writing"
    /\ Loads(pre)
    /\ ~Loads(file)

\* A mutator failed on a missing key.
C11_WitnessKeyError ==
    /\ last.op \in Mutators
    /\ last.raised
    /\ Loads(pre)
    /\ proc.pc = "idle"

C13_ActivityArguments ==
    { <<"Footing", 9, D10, 30, "">>,
      <<"Footing", 1, <<49, 48, 47, 49>>, 30, "">>,
      <<"Footing", 1, << >>, 30, "">>,
      <<"Footing", 1, D10, 0 - 30, "">>,
      <<"Footing", 1, D10, 0, "">>,
      <<"", 1, D10, 30, "x">> }

C13_CategoryArguments ==
    { <<"", "#ABC">>, <<"Etude", "rouge">>, <<"Etude", "">>, <<"Sport", "#FF5733">> }

C13_ActivityAppended(before, after, a, id) ==
    /\ after.data.activities =
           Append(before.data.activities,
                  [id |-> id, title |-> a[1], category_id |-> a[2], date |-> a[3],
                   duration |-> a[4], notes |-> a[5]])
    /\ after.data.categories = before.data.categories
    /\ after.data.keys = before.data.keys

C13_CategoryAppended(before, after, a, id) ==
    /\ after.data.categories =
           Append(before.data.categories, [id |-> id, name |-> a[1], color |-> a[2]])
    /\ after.data.activities = before.data.activities
    /\ after.data.keys = before.data.keys

C13_AddAppendsOne ==
    /\ last.op = "add_activity" =>
           ~last.raised /\ C13_ActivityAppended(pre, file, last.args, last.ret)
    /\ last.op = "add_category" =>
           ~last.raised /\ C13_CategoryAppended(pre, file, last.args, last.ret)
    /\ constructed =>
           /\ \A a \in C13_ActivityArguments :
                  LET out == add_activity(file, a[1], a[2], a[3], a[4], a[5])
                  IN  ~out.raised /\ C13_ActivityAppended(file, out.file, a, out.ret)
           /\ \A a \in C13_CategoryArguments :
                  LET out == add_category(file, a[1], a[2])
                  IN  ~out.raised /\ C13_CategoryAppended(file, out.file, a, out.ret)

\* An activity for a category that does not exist was appended behind
\* another one.
C13_Witness ==
    /\ Returned("add_activity")
    /\ last.args[2] = 0
    /\ Len(pre.data.activities) >= 1
    /\ Len(file.data.activities) = Len(pre.data.activities) + 1
    /\ 0 \notin IdsOf(file.data.categories)

\* A category was appended while activities were stored.
C13_WitnessCategory ==
    /\ Returned("add_category")
    /\ Len(file.data.categories) = Len(pre.data.categories) + 1
    /\ Len(file.data.activities) >= 1

(***************************************************************************)
(* C14.  For every (year, month) the populated cells of the rendered grid  *)
(* are exactly the days 1..n of that month, n being the length of the      *)
(* month, each once and in increasing row-major order, and every other     *)
(* cell of the 42 is empty; for February 2024 there are 29 populated       *)
(* cells.                                                                  *)
(***************************************************************************)
C14_MonthLength(y, m) ==
    CASE m \in {4, 6, 9, 11} -> 30
      [] m = 2 -> IF (y % 4 = 0 /\ y % 100 # 0) \/ y % 400 = 0 THEN 29 ELSE 28
      [] OTHER -> 31

\* The number a cell shows; 0 for a cell without text.
RECURSIVE C14_Shown(_)
C14_Shown(text) ==
    IF text = << >> THEN 0
    ELSE 10 * C14_Shown(SubSeq(text, 1, Len(text) - 1)) + (text[Len(text)] - 48)

C14_Populated == SelectSeq(view.day_labels, LAMBDA c : c.date # None)

C14_GridIsTheMonth ==
    view.built =>
        LET y == view.current_date[1]
            m == view.current_date[2]
            n == C14_MonthLength(y, m)
        IN  /\ Len(view.day_labels) = 42
            /\ Len(C14_Populated) = n
            /\ \A d \in 1..n : /\ C14_Populated[d].date = Some(<<y, m, d>>)
                               /\ C14_Shown(C14_Populated[d].text) = d
            /\ \A k \in 1..42 : view.day_labels[k].date = None =>
                                    /\ view.day_labels[k].text = << >>
                                    /\ view.day_labels[k].indicator = << >>
            /\ (y = 2024 /\ m = 2) => Len(C14_Populated) = 29

\* February 2024 is displayed after a click on a month button.
C14_Witness ==
    /\ view.built
    /\ last.op \in {"_prev_month", "_next_month"}
    /\ view.current_date[1] = 2024 /\ view.current_date[2] = 2
    /\ Len(C14_Populated) = 29

\* February 2100, not a leap year, is displayed.
C14_WitnessCentury ==
    /\ view.built
    /\ last.op \in {"_prev_month", "_next_month"}
    /\ view.current_date[1] = 2100 /\ view.current_date[2] = 2
    /\ Len(C14_Populated) = 28

(***************************************************************************)
(* C15.  For a populated cell, the number of indicators drawn equals the   *)
(* number of distinct category ids among the activities of its date that   *)
(* match an existing category, each drawn in the colour of its category:   *)
(* two activities of one category give one indicator, activities of two    *)
(* categories give two, an activity whose category does not exist none.    *)
(***************************************************************************)
C15_ActivitiesOn(date) ==
    SelectSeq(file.data.activities,
              LAMBDA a : a.date = FormatDate(date[1], date[2], date[3]))

C15_Matched(date) ==
    {C15_ActivitiesOn(date)[i].category_id : i \in 1..Len(C15_ActivitiesOn(date))}
        \cap IdsOf(file.data.categories)

C15_ColorOf(id) ==
    (CHOOSE c \in {file.data.categories[i] : i \in 1..Len(file.data.categories)} :
        c.id = id).color

C15_IndicatorPerCategory ==
    view.built =>
        \A k \in 1..42 :
            view.day_labels[k].date # None =>
                LET date == Val(view.day_labels[k].date)
                    drawn == view.day_labels[k].indicator
                IN  /\ Len(drawn) = Cardinality(C15_Matched(date))
                    /\ \A id \in C15_Matched(date) :
                           \E i \in 1..Len(drawn) : drawn[i] = C15_ColorOf(id)
                    /\ \A i \in 1..Len(drawn) :
                           \E id \in C15_Matched(date) : drawn[i] = C15_ColorOf(id)

\* Drawn again after a click: a day with two activities, both of one
\* category, shows one indicator.
C15_Witness ==
    /\ view.built
    /\ last.op = "_on_date_click"
    /\ \E k \in 1..42 :
           /\ view.day_labels[k].date # None
           /\ Len(C15_ActivitiesOn(Val(view.day_labels[k].date))) = 2
           /\ Cardinality(C15_Matched(Val(view.day_labels[k].date))) = 1
           /\ Len(view.day_labels[k].indicator) = 1

\* Drawn after a return to the month: a day with activities of two
\* categories shows two indicators.
C15_WitnessTwo ==
    /\ view.built
    /\ last.op = "_next_month"
    /\ \E k \in 1..42 :
           /\ view.day_labels[k].date # None
           /\ Len(C15_ActivitiesOn(Val(view.day_labels[k].date))) = 3
           /\ Len(view.day_labels[k].indicator) = 2
           /\ view.day_labels[k].indicator[1] # view.day_labels[k].indicator[2]

\* Drawn after a return to the month: a day whose only activity has a
\* category that does not exist shows none.
C15_WitnessOrphan ==
    /\ view.built
    /\ last.op = "_prev_month"
    /\ \E k \in 1..42 :
           /\ view.day_labels[k].date # None
           /\ Len(C15_ActivitiesOn(Val(view.day_labels[k].date))) = 1
           /\ view.day_labels[k].indicator = << >>

(***************************************************************************)
(* C16.  Previous-month maps (y, 1) to (y-1, 12) and any other (y, m) to   *)
(* (y, m-1); next-month maps (y, 12) to (y+1, 1) and any other (y, m) to   *)
(* (y, m+1).  The displayed month is always in 1..12, and next-month after *)
(* previous-month, and the reverse, gives the original (year, month).      *)
(***************************************************************************)
C16_YearMonth(date) == <<date[1], date[2]>>
C16_Previous(y, m) == IF m = 1 THEN <<y - 1, 12>> ELSE <<y, m - 1>>
C16_Following(y, m) == IF m = 12 THEN <<y + 1, 1>> ELSE <<y, m + 1>>

C16_MonthNavigation ==
    view.built =>
        /\ view.current_date[2] \in 1..12
        /\ last.op = "_prev_month" =>
               C16_YearMonth(view.current_date) =
                   C16_Previous(view.before.current_date[1], view.before.current_date[2])
        /\ last.op = "_next_month" =>
               C16_YearMonth(view.current_date) =
                   C16_Following(view.before.current_date[1], view.before.current_date[2])
        /\ C16_YearMonth(next_month(prev_month(view, file), file).current_date) =
               C16_YearMonth(view.current_date)
        /\ C16_YearMonth(prev_month(next_month(view, file), file).current_date) =
               C16_YearMonth(view.current_date)

\* December was left with the next-month button.
C16_Witness ==
    /\ view.built
    /\ last.op = "_next_month"
    /\ view.before.current_date[2] = 12
    /\ view.current_date[2] = 1
    /\ view.current_date[1] = view.before.current_date[1] + 1

\* January was left with the previous-month button.
C16_WitnessBorrow ==
    /\ view.built
    /\ last.op = "_prev_month"
    /\ view.before.current_date[2] = 1
    /\ view.current_date[2] = 12
    /\ view.current_date[1] = view.before.current_date[1] - 1

(***************************************************************************)
(* C17.  Selecting a date is idempotent: after selecting date d, selecting *)
(* d again leaves the displayed month, the selected date and the store     *)
(* unchanged.                                                              *)
(***************************************************************************)
C17_SelectIdempotent ==
    /\ (last.op = "_on_date_click" /\ view.before.selected_date = Some(last.args[1])) =>
           /\ C16_YearMonth(view.current_date) = C16_YearMonth(view.before.current_date)
           /\ view.selected_date = view.before.selected_date
           /\ file = pre
    /\ (view.built /\ view.selected_date # None) =>
           LET again == on_date_click(view, app, file, Val(view.selected_date))
           IN  /\ C16_YearMonth(again.view.current_date) = C16_YearMonth(view.current_date)
               /\ again.view.selected_date = view.selected_date
               /\ again.view.day_labels = view.day_labels
               /\ again.app = app

\* The selected date was clicked again.
C17_Witness ==
    /\ last.op = "_on_date_click"
    /\ view.before.selected_date = Some(last.args[1])
    /\ view.selected_date = Some(last.args[1])

(***************************************************************************)
(* C18.  In every state reachable from a fresh store by the form           *)
(* operations of the application, the category_id of every stored activity *)
(* is the id of a stored category: the category-delete form deletes a      *)
(* category only when no activity has its id.                              *)
(***************************************************************************)
C18_ActivitiesHaveCategory ==
    app.built =>
        /\ \A i \in 1..Len(file.data.activities) :
               file.data.activities[i].category_id \in IdsOf(file.data.categories)
        /\ (last.op = "delete_category_form" /\ last.ret.call # None) =>
               \A i \in 1..Len(pre.data.activities) :
                   pre.data.activities[i].category_id # Val(last.ret.call)[2][1]

\* A category was deleted through the form while activities are stored.
C18_Witness ==
    /\ last.op = "delete_category_form"
    /\ last.ret.call # None
    /\ Len(file.data.categories) = Len(pre.data.categories) - 1
    /\ Len(file.data.activities) >= 1

\* The form refused to delete a category that an activity has.
C18_WitnessRefused ==
    /\ last.op = "delete_category_form"
    /\ last.args[1] # None
    /\ last.ret.call = None
    /\ last.ret.message = "Cette categorie est utilisee."
    /\ file = pre

(***************************************************************************)
(* C19.  The add and edit forms of activities call add_activity or         *)
(* update_activity only when the sanitized title is not empty, the         *)
(* duration is an integer greater than 0 and the chosen category exists,   *)
(* and add_activity only when a date is selected; when a check fails the   *)
(* form makes no store call and the document is unchanged.                 *)
(***************************************************************************)
\* Something of the text is left once "<", ">" and blanks are taken away.
C19_HasTitle(text) ==
    \E i \in 1..Len(text) : text[i] \notin {60, 62} \cup Whitespace

C19_ChecksPass(args) ==
    /\ C19_HasTitle(args[1])
    /\ int(args[3]).ok /\ int(args[3]).value > 0
    /\ \E i \in 1..Len(pre.data.categories) : pre.data.categories[i].name = args[2]

C19_FormsValidate ==
    /\ last.op \in {"save_added_activity", "save_edited_activity"} =>
           /\ last.ret.call # None => C19_ChecksPass(last.args)
           /\ ~C19_ChecksPass(last.args) => last.ret.call = None
           /\ last.ret.call = None => file = pre
           /\ (last.op = "save_added_activity" /\ last.ret.call # None) =>
                  /\ Val(last.ret.call)[1] = "add_activity"
                  /\ app.selected_date # None
           /\ (last.op = "save_edited_activity" /\ last.ret.call # None) =>
                  Val(last.ret.call)[1] = "update_activity"
    /\ (last.op = "_add_activity" /\ app.selected_date = None) =>
           /\ app.dialog = "none"
           /\ file = pre

\* The add form called the store with the sanitized title.
C19_Witness ==
    /\ last.op = "save_added_activity"
    /\ last.ret.call # None
    /\ last.args[1] = <<32, 60, 82, 62, 32>>
    /\ file.data.activities[Len(file.data.activities)].title = <<82>>
    /\ file.data.activities[Len(file.data.activities)].duration = 7

\* The edit form refused a duration that is not positive.
C19_WitnessRefused ==
    /\ last.op = "save_edited_activity"
    /\ last.args[3] = <<45, 53>>
    /\ last.ret.call = None
    /\ last.ret.message = "Duration must be a positive number."
    /\ app.dialog = "edit_activity"

\* The add button was pressed with no date selected.
C19_WitnessNoDate ==
    /\ last.op = "_add_activity"
    /\ app.selected_date = None
    /\ app.dialog = "none"

(***************************************************************************)
(* C20.  In the category form, submitting a non-empty name with a          *)
(* well-formed hex colour ("#RRGGBB" or "#RGB") adds exactly one category  *)
(* with that name and colour to the store and refreshes the category cache *)
(* of the main window; submitting an empty name or a malformed colour adds *)
(* nothing.                                                                *)
(***************************************************************************)
C20_WellFormed(color) ==
    /\ Len(color) \in {4, 7}
    /\ color[1] = 35
    /\ \A i \in 2..Len(color) : IsHexDigit(color[i])

C20_SubmitAddsCategory ==
    last.op = "add_category_form" =>
        IF C19_HasTitle(last.args[1]) /\ C20_WellFormed(last.args[2])
        THEN /\ Len(file.data.categories) = Len(pre.data.categories) + 1
             /\ SubSeq(file.data.categories, 1, Len(pre.data.categories)) =
                    pre.data.categories
             /\ file.data.categories[Len(file.data.categories)].name =
                    sanitize_input(last.args[1])
             /\ file.data.categories[Len(file.data.categories)].color = last.args[2]
             /\ app.categories = file.data.categories
        ELSE file = pre

\* The form was submitted with the name "Etude" and the colour "#3366FF",
\* and the handler ended with a NameError.
C20_Submitted ==
    /\ last.op = "add_category_form"
    /\ last.args = << <<69, 116, 117, 100, 101>>, <<35, 51, 51, 54, 54, 70, 70>> >>
    /\ last.raised
    /\ file = pre

(***************************************************************************)
(* C21.  After any sequence of month navigations and date clicks, a click  *)
(* on a grid cell selects exactly the date shown in that cell, and a click *)
(* on an empty cell changes neither the selected date nor anything else:   *)
(* the selected date is always a date that was displayed in the clicked    *)
(* cell at the time of the click.                                          *)
(***************************************************************************)
C21_ClickSelectsShownDate ==
    last.op = "_on_date_click" =>
        LET shown == last.args[3]
        IN  IF shown = None
            THEN /\ view.selected_date = view.before.selected_date
                 /\ file = pre
            ELSE /\ view.selected_date = shown
                 /\ last.args[1] = Val(shown)

\* A cell that showed no day was clicked and a date of another month, the
\* one its binding was made for, became the selected date.
C21_EmptyCellClicked ==
    /\ last.op = "_on_date_click"
    /\ last.args[3] = None
    /\ view.day_labels[last.args[2]].date = None
    /\ view.selected_date = Some(last.args[1])
    /\ view.selected_date # view.before.selected_date
    /\ C16_YearMonth(last.args[1]) # C16_YearMonth(view.current_date)

\* A cell that shows a day was clicked after the months were changed.
C21_ShownCellClicked ==
    /\ last.op = "_on_date_click"
    /\ last.args[3] = Some(last.args[1])
    /\ view.selected_date = Some(last.args[1])
    /\ C16_YearMonth(view.current_date) # C16_YearMonth(view.today)

(***************************************************************************)
(* C22.  For every (year, month) the month occupies at most 6 week rows,   *)
(* so the cell index used while the grid is filled never exceeds 41, and   *)
(* day k is placed in the column of its weekday, Monday being column 0 and *)
(* Sunday column 6.                                                        *)
(***************************************************************************)
\* The day of the week by Zeller's congruence, turned to Monday = 0.
C22_Weekday(year, month, day) ==
    LET m == IF month < 3 THEN month + 12 ELSE month
        y == IF month < 3 THEN year - 1 ELSE year
        K == y % 100
        J == y \div 100
        h == (day + ((13 * (m + 1)) \div 5) + K + (K \div 4) + (J \div 4) + 5 * J) % 7
    IN  (h + 5) % 7

C22_Years == 1999..2101

\* The last index (from 0) that the loop over the weeks of a month uses.
C22_LastIndex(year, month) == 7 * Len(monthcalendar(year, month)) - 1

C22_GridFits ==
    /\ view.built =>
           /\ Len(monthcalendar(view.current_date[1], view.current_date[2])) <= 6
           /\ C22_LastIndex(view.current_date[1], view.current_date[2]) <= 41
           /\ \A k \in 1..42 :
                  view.day_labels[k].date # None =>
                      LET date == Val(view.day_labels[k].date)
                      IN  (k - 1) % 7 = C22_Weekday(date[1], date[2], date[3])
    /\ (view.built /\ last = NoCall) =>
           \A y \in C22_Years, m \in 1..12 :
               /\ C22_LastIndex(y, m) <= 41
               /\ monthcalendar(y, m)[1][C22_Weekday(y, m, 1) + 1] = 1

\* A month of six rows is displayed after a click on a month button: it
\* begins on a Sunday and its 31st day is in the cell of index 36.
C22_Witness ==
    /\ view.built
    /\ last.op \in {"_prev_month", "_next_month"}
    /\ Len(monthcalendar(view.current_date[1], view.current_date[2])) = 6
    /\ view.day_labels[7].date = Some(<<view.current_date[1], view.current_date[2], 1>>)
    /\ view.day_labels[37].date = Some(<<view.current_date[1], view.current_date[2], 31>>)

(***************************************************************************)
(* C23.  Whenever a start_date or end_date value is passed to              *)
(* get_activities (any string, the empty string included), it is applied   *)
(* as an inclusive bound: every returned activity has date >= start_date   *)
(* and date <= end_date.  Only an absent bound is skipped.                 *)
(***************************************************************************)
C23_BoundsApplied ==
    Returned("get_activities") =>
        \A i \in 1..Len(last.ret) :
            /\ last.args[1] # None => StrGE(last.ret[i].date, Val(last.args[1]))
            /\ last.args[2] # None => StrLE(last.ret[i].date, Val(last.args[2]))

\* The empty string was passed as end_date and activities were returned.
C23_EmptyEndDate ==
    /\ Returned("get_activities")
    /\ last.args = <<None, Some(<< >>), None>>
    /\ last.ret # << >>
    /\ last.ret = pre.data.activities

\* A bound that is not empty was applied: some activities were left out and
\* those returned are within it.
C23_BoundApplied ==
    /\ Returned("get_activities")
    /\ last.args = <<None, Some(D15), None>>
    /\ last.ret # << >>
    /\ Len(last.ret) < Len(pre.data.activities)

====
